---------------------------- MODULE Spec2Model ----------------------------
(***************************************************************************)
(* Model of brightspace_api.py: the BrightspaceScraper class (session      *)
(* acquisition and release, login, the two extractors, the course-code     *)
(* helper, save_data) and the main() script that drives it.                *)
(*                                                                         *)
(* Python str values are sequences of one-character strings.  A failure of *)
(* a browser call is an Exception raised by that call; which call fails is *)
(* an input of the action that models the method.                          *)
(***************************************************************************)
EXTENDS Integers, Sequences, FiniteSets

(* ------------------------------ bounds -------------------------------- *)
MaxSegs == 4
MaxCourseElems == 2
MaxAssignElems == 2
MaxCalls == 3
MaxItems == 2
MaxMainElems == 1
MaxTime == 2

(* ------------------- constants of the regular expression --------------- *)
MinLetters == 2
MaxLetters == 4
NumDigits == 5

(* --------------------------- character classes ------------------------- *)
Upper ==
    {"A", "B", "C", "D", "E", "S"}
Digit ==
    {"0", "1", "2", "7", "8"}
Whitespace ==
    {" ", "\t"}

Min(a, b) == IF a < b THEN a ELSE b

\* Number of consecutive characters of class cls in s from position i on.
RECURSIVE RunLen(_, _, _)
RunLen(s, i, cls) ==
    IF i >= 1 /\ i <= Len(s) /\ s[i] \in cls
    THEN 1 + RunLen(s, i + 1, cls)
    ELSE 0

\* s[i .. i+Len(sub)-1] = sub
OccursAt(s, sub, i) ==
    /\ i >= 1
    /\ i + Len(sub) - 1 <= Len(s)
    /\ SubSeq(s, i, i + Len(sub) - 1) = sub

\* Python: sub in s
Contains(s, sub) ==
    \E i \in 1..(Len(s) + 1) : OccursAt(s, sub, i)

\* Python: s.find(sub) + 1, for a sub that occurs in s
FirstIndex(s, sub) ==
    CHOOSE i \in 1..(Len(s) + 1) :
        /\ OccursAt(s, sub, i)
        /\ \A j \in 1..(i - 1) : ~OccursAt(s, sub, j)

\* Python: s.split(sep), for a non-empty sep
RECURSIVE Split(_, _)
Split(s, sep) ==
    IF Contains(s, sep)
    THEN LET i == FirstIndex(s, sep)
         IN  <<SubSeq(s, 1, i - 1)>> \o Split(SubSeq(s, i + Len(sep), Len(s)), sep)
    ELSE <<s>>

\* Python: s.strip()
RECURSIVE LStrip(_)
LStrip(s) ==
    IF s # <<>> /\ s[1] \in Whitespace THEN LStrip(Tail(s)) ELSE s

RECURSIVE RStrip(_)
RStrip(s) ==
    IF s # <<>> /\ s[Len(s)] \in Whitespace
    THEN RStrip(SubSeq(s, 1, Len(s) - 1))
    ELSE s

Strip(s) == RStrip(LStrip(s))

\* Python: c.lower(), on the characters the model uses
LowerChar(c) ==
    CASE c = "A" -> "a" [] c = "B" -> "b" [] c = "C" -> "c" [] c = "D" -> "d"
      [] c = "E" -> "e" [] c = "S" -> "s" [] OTHER -> c

Lower(s) == [i \in 1..Len(s) |-> LowerChar(s[i])]

(* ----------------------- _extract_course_code -------------------------- *)
NoMatch == [found |-> FALSE, g1 |-> <<>>, g2 |-> <<>>]

\* The match of ([A-Z]{2,4})\s+(\d{5}) that starts at position i: the letter
\* group is greedy (longest first), then the whitespace run is greedy.
MatchAt(s, i) ==
    LET maxn == Min(MaxLetters, RunLen(s, i, Upper))
        Fits(n, w) == RunLen(s, i + n + w, Digit) >= NumDigits
        ns == {n \in MinLetters..maxn :
                  \E w \in 1..RunLen(s, i + n, Whitespace) : Fits(n, w)}
    IN  IF ns = {}
        THEN NoMatch
        ELSE LET n == CHOOSE x \in ns : \A y \in ns : y <= x
                 ws == {w \in 1..RunLen(s, i + n, Whitespace) : Fits(n, w)}
                 w == CHOOSE x \in ws : \A y \in ws : y <= x
             IN  [found |-> TRUE,
                  g1 |-> SubSeq(s, i, i + n - 1),
                  g2 |-> SubSeq(s, i + n + w, i + n + w + NumDigits - 1)]

\* re.search: the match at the leftmost position that has one.
RECURSIVE SearchFrom(_, _)
SearchFrom(s, i) ==
    IF i > Len(s)
    THEN NoMatch
    ELSE IF MatchAt(s, i).found THEN MatchAt(s, i) ELSE SearchFrom(s, i + 1)

re_search(s) == SearchFrom(s, 1)

Separator == <<" ", "-", " ">>

\* Variant: the two groups joined without the space.
ExtractCodeNoSpace(course_name) ==
    LET match == re_search(course_name)
    IN  IF match.found
        THEN match.g1 \o match.g2
        ELSE IF Contains(course_name, Separator)
             THEN Split(course_name, Separator)[1]
             ELSE course_name

\* Variant: the fallback takes the part after the first separator.
ExtractCodeSecondPart(course_name) ==
    LET match == re_search(course_name)
    IN  IF match.found
        THEN match.g1 \o <<" ">> \o match.g2
        ELSE IF Contains(course_name, Separator)
             THEN Split(course_name, Separator)[2]
             ELSE course_name

_extract_course_code(course_name) ==
    LET match == re_search(course_name)
    IN  IF match.found
        THEN match.g1 \o <<" ">> \o match.g2
        ELSE IF Contains(course_name, Separator)
             THEN Split(course_name, Separator)[1]
             ELSE course_name


(* ------------------------------- state --------------------------------- *)
VARIABLES
    pc,            \* main(): the next operation of the script
    exc,           \* an exception is propagating out of the current scope
    log,           \* the operations main() has called, in call order
    playwright,    \* self.playwright: 0 = attribute not set, else a driver id
    browser,       \* self.browser: 0 = None, else a browser id
    page,          \* self.page: 0 = None, else the id of its browser
    drivers,       \* ids of the automation drivers that are running
    browsers,      \* ids of the browser processes that are running
    started,       \* number of drivers started so far
    launched,      \* number of browsers launched so far
    enterCalls,    \* number of __enter__ calls on the instance
    login_fail,    \* the browser call that failed in login ("none": no call)
    login_ret,     \* what login returned ("unset" before the call)
    dom,           \* the matched elements given to the extractor called last on its own
    gc_fail,       \* the top-level call that failed in that get_courses call
    courses,       \* what get_courses returned
    ga_fail,       \* the top-level call that failed in that get_assignments call
    ga_url,        \* the course_url get_assignments was called with
    assignments,   \* what get_assignments returned
    file,          \* the output file: [exists, content]
    file0,         \* the output file when the run began
    last_saved,    \* the data of the last save_data call that succeeded
    course_name,   \* the argument of _extract_course_code
    code           \* its result

sessionVars == <<playwright, browser, page, drivers, browsers, started, launched, enterCalls>>
loginVars == <<login_fail, login_ret>>
extractVars == <<dom, gc_fail, courses, ga_fail, ga_url, assignments>>
fileVars == <<file, file0, last_saved>>
codeVars == <<course_name, code>>
vars == <<pc, exc, log, sessionVars, loginVars, extractVars, fileVars, codeVars>>

(* ------------------------ __enter__ and __exit__ ------------------------ *)
EnterFails == {"none", "start", "launch", "new_page"}

\* __enter__: start the driver, launch a browser, open a page; the call named
\* by failAt raises and the calls after it do not run.
enter(failAt) ==
    /\ enterCalls' = enterCalls + 1
    /\ IF failAt = "start"
       THEN /\ UNCHANGED <<playwright, browser, page, drivers, browsers, started, launched>>
            /\ exc' = TRUE
       ELSE /\ started' = started + 1
            /\ playwright' = started + 1
            /\ drivers' = drivers \cup {started + 1}
            /\ IF failAt = "launch"
               THEN /\ UNCHANGED <<browser, page, browsers, launched>>
                    /\ exc' = TRUE
               ELSE /\ launched' = launched + 1
                    /\ browser' = launched + 1
                    /\ browsers' = browsers \cup {launched + 1}
                    /\ IF failAt = "new_page"
                       THEN page' = page /\ exc' = TRUE
                       ELSE page' = launched + 1 /\ exc' = exc

\* Variant: __exit__ also resets self.browser to None.
ExitResetsBrowser(closeFails, stopFails) ==
    /\ UNCHANGED <<playwright, page, started, launched, enterCalls>>
    /\ IF browser # 0 /\ closeFails
       THEN /\ UNCHANGED <<drivers, browsers, browser>>
            /\ exc' = TRUE
       ELSE /\ browsers' = browsers \ {browser}
            /\ browser' = 0
            /\ IF playwright # 0
               THEN IF stopFails
                    THEN drivers' = drivers /\ exc' = TRUE
                    ELSE drivers' = drivers \ {playwright} /\ exc' = exc
               ELSE drivers' = drivers /\ exc' = exc

\* __exit__: close the browser if self.browser is set, then stop the driver
\* if self.playwright is set.  A close() that raises skips the stop().  The
\* method returns None, so an exception of the with body keeps propagating.
exit(closeFails, stopFails) ==
    /\ UNCHANGED <<playwright, browser, page, started, launched, enterCalls>>
    /\ IF browser # 0 /\ closeFails
       THEN /\ UNCHANGED <<drivers, browsers>>
            /\ exc' = TRUE
       ELSE /\ browsers' = browsers \ {browser}
            /\ IF playwright # 0
               THEN IF stopFails
                    THEN drivers' = drivers /\ exc' = TRUE
                    ELSE drivers' = drivers \ {playwright} /\ exc' = exc
               ELSE drivers' = drivers /\ exc' = exc

(* -------------------------------- login -------------------------------- *)
LoginCalls ==
    <<"goto", "wait_username", "fill_username", "fill_password", "click", "wait_duo">>
LoginFails == {"none"} \cup {LoginCalls[i] : i \in 1..Len(LoginCalls)}

\* The call that actually fails: with self.page = None the first use of the
\* page raises AttributeError.
FirstFail(pg, failAt, first) == IF pg = 0 THEN first ELSE failAt

\* Variant: a failed wait for the approval element falls through to return True.
LoginIgnoresTimeout(pg, failAt) ==
    LET f == FirstFail(pg, failAt, "goto")
    IN  IF f \in {"goto", "wait_username", "fill_username", "fill_password", "click"}
        THEN [ret |-> FALSE, raised |-> FALSE]
        ELSE [ret |-> TRUE, raised |-> FALSE]

\* login: every call up to the click is under the outer handler, the wait
\* for the approval element under the inner one; both return False.
login(pg, failAt) ==
    LET f == FirstFail(pg, failAt, "goto")
    IN  IF f \in {"goto", "wait_username", "fill_username", "fill_password", "click"}
        THEN [ret |-> FALSE, raised |-> FALSE]
        ELSE IF f = "wait_duo"
             THEN [ret |-> FALSE, raised |-> FALSE]
             ELSE [ret |-> TRUE, raised |-> FALSE]


(* ------------------------------ get_courses ----------------------------- *)
\* The dataclass Course
Course(name, course_code, instructor, url) ==
    [name |-> name, code |-> course_code, instructor |-> instructor, url |-> url]

\* Variant: an element that raises ends the loop (break for continue).
RECURSIVE CourseLoopBreak(_, _)
CourseLoopBreak(elems, acc) ==
    IF elems = <<>>
    THEN acc
    ELSE LET element == Head(elems)
         IN  IF element.text.kind # "ok" \/ element.href.kind = "raise"
             THEN acc
             ELSE LET name == Strip(element.text.text)
                      url == IF element.href.kind = "none" THEN <<>> ELSE element.href.text
                  IN  CourseLoopBreak(Tail(elems),
                                      Append(acc, Course(name, _extract_course_code(name), <<>>, url)))

\* The loop over course_elements.  text_content() raises, or returns None and
\* .strip() raises, or get_attribute raises: the element is skipped.  A
\* missing href (None) becomes "".
RECURSIVE CourseLoop(_, _)
CourseLoop(elems, acc) ==
    IF elems = <<>>
    THEN acc
    ELSE LET element == Head(elems)
         IN  IF element.text.kind # "ok" \/ element.href.kind = "raise"
             THEN CourseLoop(Tail(elems), acc)
             ELSE LET name == Strip(element.text.text)
                      url == IF element.href.kind = "none" THEN <<>> ELSE element.href.text
                  IN  CourseLoop(Tail(elems),
                                 Append(acc, Course(name, _extract_course_code(name), <<>>, url)))

\* Variant: the wait for the first course element is outside the try block.
GetCoursesWaitUnguarded(pg, failAt, elems) ==
    LET f == FirstFail(pg, failAt, "goto")
    IN  IF f = "wait"
        THEN [ret |-> <<>>, raised |-> TRUE]
        ELSE IF f \in {"goto", "query"}
             THEN [ret |-> <<>>, raised |-> FALSE]
             ELSE [ret |-> CourseLoop(elems, <<>>), raised |-> FALSE]

GetCoursesFails == {"none", "goto", "wait", "query"}

\* get_courses: goto, wait_for_selector and query_selector_all are under the
\* outer handler, which returns [].
get_courses(pg, failAt, elems) ==
    LET f == FirstFail(pg, failAt, "goto")
    IN  IF f \in {"goto", "wait", "query"}
        THEN [ret |-> <<>>, raised |-> FALSE]
        ELSE [ret |-> CourseLoop(elems, <<>>), raised |-> FALSE]

(* ---------------------------- get_assignments --------------------------- *)
Unknown == <<"U", "n", "k", "n", "o", "w", "n">>
NoDueDate == <<"N", "o", " ", "d", "u", "e", " ", "d", "a", "t", "e">>
UnknownCourse == Unknown \o <<" ", "C", "o", "u", "r", "s", "e">>
CourseWord == <<"c", "o", "u", "r", "s", "e">>

\* The dataclass Assignment
Assignment(title, due_date, course, status, url) ==
    [title |-> title, due_date |-> due_date, course |-> course, status |-> status, url |-> url]

\* The first part of parts whose lower-case form contains "course".
RECURSIVE FirstCoursePart(_)
FirstCoursePart(parts) ==
    IF parts = <<>>
    THEN UnknownCourse
    ELSE IF Contains(Lower(Head(parts)), CourseWord)
         THEN Head(parts)
         ELSE FirstCoursePart(Tail(parts))

_extract_course_from_url(url) == FirstCoursePart(Split(url, <<"/">>))

\* Variant: text_content() is called on a missing sub-element too.
FieldRaisesOnAbsent(sub) == sub.kind \in {"bad", "absent"}

\* x.text_content().strip() if x else sentinel; raises when text_content()
\* fails or returns None.
FieldRaises(sub) == sub.kind = "bad"
FieldText(sub, sentinel) == IF sub.kind = "absent" THEN sentinel ELSE Strip(sub.text)

\* The loop over assignment_elements.
RECURSIVE AssignmentLoop(_, _, _)
AssignmentLoop(elems, course_url, acc) ==
    IF elems = <<>>
    THEN acc
    ELSE LET element == Head(elems)
         IN  IF FieldRaises(element.title) \/ FieldRaises(element.due) \/ FieldRaises(element.status)
             THEN AssignmentLoop(Tail(elems), course_url, acc)
             ELSE AssignmentLoop(Tail(elems), course_url,
                      Append(acc, Assignment(
                          FieldText(element.title, Unknown),
                          FieldText(element.due, NoDueDate),
                          _extract_course_from_url(course_url),
                          FieldText(element.status, Unknown),
                          IF element.title.kind = "absent" THEN <<>> ELSE element.title.href)))

GetAssignmentsFails == {"none", "goto", "query_link", "click", "networkidle", "query_all"}

\* get_assignments: goto, the query for the assignments link, the click and
\* the network-idle wait (both only when the link exists) and
\* query_selector_all are under the outer handler, which returns [].
get_assignments(pg, course_url, failAt, hasLink, elems) ==
    LET f == FirstFail(pg, failAt, "goto")
        fails == \/ f \in {"goto", "query_link", "query_all"}
                 \/ (hasLink /\ f \in {"click", "networkidle"})
    IN  IF fails
        THEN [ret |-> <<>>, raised |-> FALSE]
        ELSE [ret |-> AssignmentLoop(elems, course_url, <<>>), raised |-> FALSE]

(* ------------------------------ page inputs ----------------------------- *)
Name1 == <<"C", "S", " ", "1", "8", "0", "0", "0", " ", "-", " ", "P">>
Name2 == <<" ", "S", "e", "m", " ">>
Url1 == <<"/", "d", "2", "l", "/", "C", "o", "u", "r", "s", "e", "1">>
Url2 == <<"/", "l", "e", "/", "7">>

SeqsUpTo(S, n) == UNION {[1..k -> S] : k \in 0..n}

\* What text_content() and get_attribute("href") give on a course element.
TextChoices ==
    {[kind |-> "raise", text |-> <<>>], [kind |-> "none", text |-> <<>>]}
        \cup {[kind |-> "ok", text |-> n] : n \in {Name1, Name2}}
HrefChoices ==
    {[kind |-> "raise", text |-> <<>>], [kind |-> "none", text |-> <<>>]}
        \cup {[kind |-> "ok", text |-> u] : u \in {<<>>, Url1, Url2}}
CourseElems == {[text |-> t, href |-> h] : t \in TextChoices, h \in HrefChoices}

\* The sub-elements of an assignment row: absent (query_selector gives None),
\* ok, or bad (text_content() raises or gives None).
Absent == [kind |-> "absent", text |-> <<>>, href |-> <<>>]
Bad == [kind |-> "bad", text |-> <<>>, href |-> <<>>]
TitleChoices == {Absent, Bad, [kind |-> "ok", text |-> <<"H", "W", "1">>, href |-> <<"/", "a", "/", "1">>]}
DueChoices == {Absent, Bad, [kind |-> "ok", text |-> <<"M", "a", "y", " ", "1", " ">>, href |-> <<>>]}
StatusChoices == {Absent, [kind |-> "ok", text |-> <<"O", "p", "e", "n">>, href |-> <<>>]}
AssignElems ==
    {[title |-> t, due |-> d, status |-> st] :
        t \in TitleChoices, d \in DueChoices, st \in StatusChoices}


(* ------------------------------- save_data ------------------------------ *)
\* The dict main() builds for a course, and the JSON text as the sequence of
\* chunks json.dump writes to the file one after the other.
CourseDict(c) == [name |-> c.name, code |-> c.code, url |-> c.url]
NullDict == [name |-> <<>>, code |-> <<>>, url |-> <<>>]
NullData == [courses |-> <<>>, scraped_at |-> 0]
Chunk(t, v, n) == [t |-> t, v |-> v, n |-> n]
Tok(t) == Chunk(t, NullDict, 0)

RECURSIVE ItemChunks(_)
ItemChunks(items) ==
    IF items = <<>>
    THEN <<>>
    ELSE IF Len(items) = 1
         THEN <<Chunk("item", items[1], 0)>>
         ELSE <<Chunk("item", items[1], 0), Tok(",")>> \o ItemChunks(Tail(items))

\* json.dump(data, f, indent=2)
Dumps(data) ==
    <<Tok("{courses:[")>> \o ItemChunks(data.courses)
        \o <<Tok("]"), Chunk("scraped_at", NullDict, data.scraped_at), Tok("}")>>

\* json.load of a file content: the data, or a parse error.
Loads(content) ==
    LET n == Len(content)
        mid == SubSeq(content, 2, n - 3)
        wellFormed ==
            /\ n >= 4
            /\ content[1] = Tok("{courses:[")
            /\ content[n - 2] = Tok("]")
            /\ content[n - 1].t = "scraped_at"
            /\ content[n] = Tok("}")
            /\ Len(mid) = 0 \/ Len(mid) % 2 = 1
            /\ \A i \in 1..Len(mid) :
                  IF i % 2 = 1 THEN mid[i].t = "item" ELSE mid[i] = Tok(",")
    IN  IF wellFormed
        THEN [ok |-> TRUE,
              data |-> [courses |-> [k \in 1..((Len(mid) + 1) \div 2) |-> mid[2 * k - 1].v],
                        scraped_at |-> content[n - 1].n]]
        ELSE [ok |-> FALSE, data |-> NullData]

\* save_data: open(filename, 'w') truncates the file, json.dump writes the
\* chunks; a failure after `written` chunks leaves those in the file.  Every
\* Exception is caught.  written = Len(Dumps(data)): the call succeeds.
save_data(data, openFails, written) ==
    IF openFails
    THEN UNCHANGED <<file, last_saved>>
    ELSE /\ file' = [exists |-> TRUE, content |-> SubSeq(Dumps(data), 1, written)]
         /\ last_saved' = IF written = Len(Dumps(data))
                          THEN [set |-> TRUE, data |-> data]
                          ELSE last_saved

NoFile == [exists |-> FALSE, content |-> <<>>]
Times == 1..MaxTime

(* ------------------------------ initial states -------------------------- *)
FreshInstance ==
    /\ playwright = 0 /\ browser = 0 /\ page = 0
    /\ drivers = {} /\ browsers = {}
    /\ started = 0 /\ launched = 0 /\ enterCalls = 0

OpenInstance ==
    /\ playwright = 1 /\ browser = 1 /\ page = 1
    /\ drivers = {1} /\ browsers = {1}
    /\ started = 1 /\ launched = 1 /\ enterCalls = 1

NoLogin == login_fail = "none" /\ login_ret = FALSE

NoExtract ==
    /\ dom = <<>> /\ gc_fail = "none" /\ courses = <<>>
    /\ ga_fail = "none" /\ ga_url = <<>> /\ assignments = <<>>

NoOutput == file = NoFile /\ file0 = NoFile /\ last_saved = [set |-> FALSE, data |-> NullData]

NoCode == course_name = <<>> /\ code = <<>>

(* -------------------------------- main() -------------------------------- *)
OldData == [courses |-> <<[name |-> Name2, code |-> Name2, url |-> <<>>]>>, scraped_at |-> 0]

Init ==
    /\ pc = "enter" /\ exc = FALSE /\ log = <<>>
    /\ FreshInstance /\ NoLogin /\ NoExtract /\ NoCode
    /\ \/ NoOutput
       \/ /\ file = [exists |-> TRUE, content |-> Dumps(OldData)]
          /\ file0 = file
          /\ last_saved = [set |-> TRUE, data |-> OldData]

\* with BrightspaceScraper(headless=False) as scraper: an exception of
\* __enter__ leaves main() without calling __exit__.
MainEnter ==
    /\ pc = "enter"
    /\ \E failAt \in EnterFails : enter(failAt)
    /\ pc' = IF exc' THEN "done" ELSE "login"
    /\ log' = Append(log, "enter")
    /\ UNCHANGED <<loginVars, extractVars, fileVars, codeVars>>

\* Variant: the data is saved after a failed login too.
MainLoginThenSave ==
    /\ pc = "login"
    /\ \E failAt \in LoginFails :
          LET r == login(page, failAt)
          IN  /\ login_fail' = failAt
              /\ login_ret' = r.ret
              /\ exc' = r.raised
              /\ pc' = IF r.raised THEN "exit"
                       ELSE IF r.ret THEN "get_courses" ELSE "save_data"
    /\ log' = Append(log, "login")
    /\ UNCHANGED <<sessionVars, extractVars, fileVars, codeVars>>

\* if scraper.login(USERNAME, PASSWORD): ... else: print("Login failed!")
MainLogin ==
    /\ pc = "login"
    /\ \E failAt \in LoginFails :
          LET r == login(page, failAt)
          IN  /\ login_fail' = failAt
              /\ login_ret' = r.ret
              /\ exc' = r.raised
              /\ pc' = IF ~r.raised /\ r.ret THEN "get_courses" ELSE "exit"
    /\ log' = Append(log, "login")
    /\ UNCHANGED <<sessionVars, extractVars, fileVars, codeVars>>

\* courses = scraper.get_courses(); the assignments of the first course are
\* fetched if courses is non-empty and its first url is non-empty.
MainGetCourses ==
    /\ pc = "get_courses"
    /\ \E failAt \in GetCoursesFails, elems \in SeqsUpTo(CourseElems, MaxMainElems) :
          LET r == get_courses(page, failAt, elems)
          IN  /\ courses' = r.ret
              /\ exc' = r.raised
              /\ pc' = IF r.raised THEN "exit"
                       ELSE IF r.ret # <<>> /\ r.ret[1].url # <<>>
                            THEN "get_assignments"
                            ELSE "save_data"
    /\ log' = Append(log, "get_courses")
    /\ UNCHANGED <<sessionVars, loginVars, dom, gc_fail, ga_fail, ga_url, assignments, fileVars, codeVars>>

\* assignments = scraper.get_assignments(first_course_url)
MainGetAssignments ==
    /\ pc = "get_assignments"
    /\ \E failAt \in GetAssignmentsFails, hasLink \in BOOLEAN,
          elems \in SeqsUpTo(AssignElems, MaxMainElems) :
          LET r == get_assignments(page, courses[1].url, failAt, hasLink, elems)
          IN  /\ ga_url' = courses[1].url
              /\ assignments' = r.ret
              /\ exc' = r.raised
              /\ pc' = IF r.raised THEN "exit" ELSE "save_data"
    /\ log' = Append(log, "get_assignments")
    /\ UNCHANGED <<sessionVars, loginVars, dom, gc_fail, ga_fail, courses, fileVars, codeVars>>

\* scraper.save_data(data, "brightspace_data.json")
MainSaveData ==
    /\ pc = "save_data"
    /\ \E t \in Times, openFails \in BOOLEAN :
          LET data == [courses |-> [i \in 1..Len(courses) |-> CourseDict(courses[i])],
                       scraped_at |-> t]
          IN  \E written \in 0..Len(Dumps(data)) : save_data(data, openFails, written)
    /\ pc' = "exit"
    /\ log' = Append(log, "save_data")
    /\ UNCHANGED <<exc, file0, sessionVars, loginVars, extractVars, codeVars>>

\* The with statement calls __exit__ when its body ends.
MainExit ==
    /\ pc = "exit"
    /\ \E closeFails \in BOOLEAN, stopFails \in BOOLEAN : exit(closeFails, stopFails)
    /\ pc' = "done"
    /\ log' = Append(log, "exit")
    /\ UNCHANGED <<loginVars, extractVars, fileVars, codeVars>>

Next ==
    \/ MainEnter
    \/ MainLogin
    \/ MainGetCourses
    \/ MainGetAssignments
    \/ MainSaveData
    \/ MainExit

Spec == Init /\ [][Next]_vars


(* ------------------- the extractors called on their own ------------------ *)
\* One call on an instance before or after a successful __enter__; the call
\* records its inputs (dom, the failing call) next to its result.
ExtractInit ==
    /\ pc = "extract" /\ exc = FALSE /\ log = <<>>
    /\ FreshInstance \/ OpenInstance
    /\ NoLogin /\ NoExtract /\ NoOutput /\ NoCode

ExtGetCourses ==
    /\ pc = "extract"
    /\ \E failAt \in GetCoursesFails, elems \in SeqsUpTo(CourseElems, MaxCourseElems) :
          LET r == get_courses(page, failAt, elems)
          IN  /\ dom' = elems
              /\ gc_fail' = failAt
              /\ courses' = r.ret
              /\ exc' = r.raised
    /\ pc' = "returned"
    /\ log' = <<"get_courses">>
    /\ UNCHANGED <<ga_fail, ga_url, assignments, sessionVars, loginVars, fileVars, codeVars>>

ExtGetAssignments ==
    /\ pc = "extract"
    /\ \E failAt \in GetAssignmentsFails, hasLink \in BOOLEAN, url \in {Url1},
          elems \in SeqsUpTo(AssignElems, MaxAssignElems) :
          LET r == get_assignments(page, url, failAt, hasLink, elems)
          IN  /\ dom' = elems
              /\ ga_fail' = IF ~hasLink /\ failAt \in {"click", "networkidle"}
                            THEN "none"
                            ELSE failAt
              /\ ga_url' = url
              /\ assignments' = r.ret
              /\ exc' = r.raised
    /\ pc' = "returned"
    /\ log' = <<"get_assignments">>
    /\ UNCHANGED <<gc_fail, courses, sessionVars, loginVars, fileVars, codeVars>>

ExtractNext ==
    \/ ExtGetCourses
    \/ ExtGetAssignments

ExtractSpec == ExtractInit /\ [][ExtractNext]_vars

(* ------------- __enter__ and __exit__ called in any sequence ------------- *)
SessionInit ==
    /\ pc = "session" /\ exc = FALSE /\ log = <<>>
    /\ FreshInstance /\ NoLogin /\ NoExtract /\ NoOutput /\ NoCode

SessEnter ==
    /\ enterCalls < MaxCalls
    /\ \E failAt \in EnterFails : enter(failAt)
    /\ log' = Append(log, "enter")
    /\ UNCHANGED <<pc, loginVars, extractVars, fileVars, codeVars>>

SessExit ==
    /\ Len(log) < 2 * MaxCalls
    /\ \E closeFails \in BOOLEAN, stopFails \in BOOLEAN : exit(closeFails, stopFails)
    /\ log' = Append(log, "exit")
    /\ UNCHANGED <<pc, loginVars, extractVars, fileVars, codeVars>>

SessionNext ==
    \/ SessEnter
    \/ SessExit

SessionSpec == SessionInit /\ [][SessionNext]_vars

(* --------------------- save_data called in any sequence ------------------ *)
Dict1 == [name |-> Strip(Name1), code |-> _extract_course_code(Strip(Name1)), url |-> Url1]
Dict2 == [name |-> Strip(Name2), code |-> _extract_course_code(Strip(Name2)), url |-> <<>>]
DataSet ==
    {[courses |-> c, scraped_at |-> t] : c \in SeqsUpTo({Dict1, Dict2}, MaxItems), t \in Times}

SaveInit ==
    /\ pc = "save" /\ exc = FALSE /\ log = <<>>
    /\ FreshInstance /\ NoLogin /\ NoExtract /\ NoOutput /\ NoCode

SaveCall ==
    /\ \E data \in DataSet, openFails \in BOOLEAN :
          \E written \in 0..Len(Dumps(data)) : save_data(data, openFails, written)
    /\ UNCHANGED <<pc, exc, log, file0, sessionVars, loginVars, extractVars, codeVars>>

SaveNext == SaveCall

SaveSpec == SaveInit /\ [][SaveNext]_vars

(* ------------------ _extract_course_code called on a name ---------------- *)
\* Course names: up to MaxSegs pieces, each a run of letters, digits or white
\* space, the separator, or another character.
Segs ==
    {<<"A">>, <<"C", "S">>, <<"1", "8", "0", "0", "0">>, <<"7">>,
     <<" ">>, <<"\t">>, Separator, <<"x">>}

RECURSIVE NamesOf(_)
NamesOf(n) ==
    IF n = 0
    THEN {<<>>}
    ELSE LET prev == NamesOf(n - 1)
         IN  prev \cup {p \o sg : p \in prev, sg \in Segs}

CodeInit ==
    /\ pc = "call" /\ exc = FALSE /\ log = <<>>
    /\ FreshInstance /\ NoLogin /\ NoExtract /\ NoOutput
    /\ course_name \in NamesOf(MaxSegs)
    /\ code = <<>>

CodeCall ==
    /\ pc = "call"
    /\ code' = _extract_course_code(course_name)
    /\ pc' = "returned"
    /\ UNCHANGED <<exc, log, course_name, sessionVars, loginVars, extractVars, fileVars>>

CodeNext == CodeCall

CodeSpec == CodeInit /\ [][CodeNext]_vars


(* ------------------------------ properties ------------------------------ *)
InLog(op) == \E i \in 1..Len(log) : log[i] = op
Count(op) == Cardinality({i \in 1..Len(log) : log[i] = op})
LastOp == IF log = <<>> THEN "none" ELSE log[Len(log)]
\* Position, among the indices in S, of index i.
Pos(S, i) == Cardinality({j \in S : j <= i})

\* C1: once the scope of main() has exited, in a run whose __enter__ started
\* the driver or launched a browser, no browser and no driver is running.
ScopeExitReleases ==
    (pc = "done" /\ (started > 0 \/ launched > 0)) => (browsers = {} /\ drivers = {})

\* C2: login never raises, returns True only if every call up to and
\* including the wait for the approval element succeeded, and returns False
\* whenever one of them failed.
LoginContract ==
    LastOp = "login" =>
        /\ exc = FALSE
        /\ login_ret = TRUE => login_fail = "none"
        /\ login_fail # "none" => login_ret = FALSE

LoginTimedOut ==
    /\ LastOp = "login"
    /\ login_fail = "wait_duo"
    /\ login_ret = FALSE
    /\ pc = "exit"

\* C3: get_courses returns, in element order, exactly the records of the
\* elements whose processing did not raise (N - 1 records when one raises).
CourseElementRaises(e) == e.text.kind \in {"raise", "none"} \/ e.href.kind = "raise"
GoodCourseIdx == {i \in 1..Len(dom) : ~CourseElementRaises(dom[i])}
CourseRecordOf(e) ==
    Course(Strip(e.text.text), _extract_course_code(Strip(e.text.text)), <<>>,
           IF e.href.kind = "none" THEN <<>> ELSE e.href.text)

CourseIsolation ==
    (LastOp = "get_courses" /\ pc = "returned" /\ FirstFail(page, gc_fail, "goto") = "none") =>
        /\ Len(courses) = Cardinality(GoodCourseIdx)
        /\ \A i \in GoodCourseIdx : courses[Pos(GoodCourseIdx, i)] = CourseRecordOf(dom[i])

OneCourseElementSkipped ==
    /\ LastOp = "get_courses" /\ pc = "returned"
    /\ FirstFail(page, gc_fail, "goto") = "none"
    /\ Len(dom) = 2
    /\ CourseElementRaises(dom[1])
    /\ ~CourseElementRaises(dom[2])
    /\ courses = <<CourseRecordOf(dom[2])>>

\* C4: whenever the output file exists, it parses as JSON and holds the data
\* of the last save_data call that succeeded.
OutputFileInvariant ==
    file.exists =>
        /\ Loads(file.content).ok
        /\ last_saved.set
        /\ Loads(file.content).data = last_saved.data

\* C5: for a name that begins with 2 to 4 upper-case letters, one space and 5
\* digits, _extract_course_code returns those letters, one space, those digits.
StartsWithPattern(s, n) ==
    /\ Len(s) >= n + 1 + NumDigits
    /\ \A i \in 1..n : s[i] \in Upper
    /\ s[n + 1] = " "
    /\ \A i \in (n + 2)..(n + 1 + NumDigits) : s[i] \in Digit

CourseCodeOfPattern ==
    pc = "returned" =>
        \A n \in MinLetters..MaxLetters :
            StartsWithPattern(course_name, n) =>
                code = SubSeq(course_name, 1, n) \o <<" ">>
                           \o SubSeq(course_name, n + 2, n + 1 + NumDigits)

PatternNameExtracted ==
    /\ pc = "returned"
    /\ StartsWithPattern(course_name, MinLetters)
    /\ Contains(course_name, Separator)
    /\ code = SubSeq(course_name, 1, MinLetters + 1 + NumDigits)

\* C6 as stated: when no occurrence of 2 to 4 upper-case letters, a space and
\* 5 digits is in the name, the result is the part before the first " - ",
\* or the whole name if it has no " - ".
AllIn(s, from, to, cls) == \A i \in from..to : i \in 1..Len(s) /\ s[i] \in cls
PatternOccurs(s, maxGap, gapChars) ==
    \E i \in 1..Len(s), n \in MinLetters..MaxLetters, w \in 1..maxGap :
        /\ AllIn(s, i, i + n - 1, Upper)
        /\ AllIn(s, i + n, i + n + w - 1, gapChars)
        /\ AllIn(s, i + n + w, i + n + w + NumDigits - 1, Digit)
Fallback(s) ==
    IF Contains(s, Separator) THEN SubSeq(s, 1, FirstIndex(s, Separator) - 1) ELSE s

FallbackWithoutSpacePattern ==
    (pc = "returned" /\ ~PatternOccurs(course_name, 1, {" "})) => code = Fallback(course_name)

\* C6 as amended: when no occurrence of 2 to 4 upper-case letters, one or
\* more white-space characters and 5 digits is in the name, the result is the
\* part before the first " - ", or the whole name if it has no " - ".
FallbackWithoutPattern ==
    (pc = "returned" /\ ~PatternOccurs(course_name, Len(course_name), Whitespace)) =>
        code = Fallback(course_name)

FallbackTaken ==
    /\ pc = "returned"
    /\ ~PatternOccurs(course_name, Len(course_name), Whitespace)
    /\ Contains(course_name, Separator)
    /\ code = Fallback(course_name)
    /\ code # <<>>
    /\ Len(code) + Len(Separator) < Len(course_name)

\* C7: get_assignments makes a record for every row none of whose present
\* sub-elements raises; a field whose sub-element is missing holds its
\* sentinel ("No due date", "Unknown"), whatever the other sub-elements are.
AssignElementRaises(e) == \E sub \in {e.title, e.due, e.status} : sub.kind = "bad"
GoodAssignIdx == {i \in 1..Len(dom) : ~AssignElementRaises(dom[i])}
FieldOk(sub, sentinel, value) ==
    IF sub.kind = "absent" THEN value = sentinel ELSE value = Strip(sub.text)

SentinelFallback ==
    (LastOp = "get_assignments" /\ pc = "returned" /\ ga_fail = "none" /\ page # 0) =>
        /\ Len(assignments) = Cardinality(GoodAssignIdx)
        /\ \A i \in GoodAssignIdx :
              LET r == assignments[Pos(GoodAssignIdx, i)]
              IN  /\ FieldOk(dom[i].due, NoDueDate, r.due_date)
                  /\ FieldOk(dom[i].title, Unknown, r.title)
                  /\ FieldOk(dom[i].status, Unknown, r.status)

MissingDueDateKept ==
    /\ LastOp = "get_assignments" /\ pc = "returned" /\ ga_fail = "none" /\ page # 0
    /\ Len(dom) = 2
    /\ dom[1].due.kind = "absent" /\ dom[1].title.kind = "ok" /\ dom[1].status.kind = "absent"
    /\ dom[2].due.kind = "ok" /\ dom[2].title.kind = "absent"
    /\ Len(assignments) = 2
    /\ assignments[1].due_date = NoDueDate /\ assignments[1].status = Unknown
    /\ assignments[2].title = Unknown /\ assignments[2].due_date # NoDueDate

\* C8: get_courses and get_assignments never raise, and return [] when a
\* top-level call (goto, the wait, the link click, the network-idle wait, a
\* query) fails, whatever elements the page holds.
ExtractorsReturnEmptyOnFailure ==
    pc = "returned" =>
        /\ exc = FALSE
        /\ (LastOp = "get_courses" /\ FirstFail(page, gc_fail, "goto") # "none") => courses = <<>>
        /\ (LastOp = "get_assignments" /\ FirstFail(page, ga_fail, "goto") # "none") =>
               assignments = <<>>

ExtractorFailedWithElements ==
    /\ pc = "returned" /\ LastOp = "get_courses"
    /\ page # 0 /\ gc_fail = "wait"
    /\ Len(dom) = 2 /\ GoodCourseIdx = {1, 2}
    /\ courses = <<>>

\* C9 as stated: whatever __enter__ and __exit__ calls are made, the session
\* only stays where it is, opens from Unopened or closes from Open, and no
\* second browser is launched.
SessionStateOf(b, running) ==
    IF b = 0 THEN "Unopened" ELSE IF b \in running THEN "Open" ELSE "Closed"
SessionState == SessionStateOf(browser, browsers)
LifecycleStep ==
    LET before == SessionState
        after == SessionStateOf(browser', browsers')
    IN  /\ \/ after = before /\ launched' = launched
           \/ before = "Unopened" /\ after = "Open"
           \/ before = "Open" /\ after = "Closed" /\ launched' = launched
        /\ launched' <= 1

SessionLifecycle == [][LifecycleStep]_vars

\* C9 as amended: as long as __enter__ has been called at most once on the
\* instance, the session only stays where it is, opens from Unopened or
\* closes from Open, and at most one browser is launched.
LifecycleWhenAcquiredOnce == [][enterCalls' <= 1 => LifecycleStep]_vars

SessionClosedAfterOneAcquisition ==
    /\ pc = "session"
    /\ enterCalls = 1 /\ launched = 1
    /\ SessionState = "Closed"
    /\ log = <<"enter", "exit">>

\* C10: main() calls enter, login, get_courses, get_assignments, save_data,
\* exit in this order, each at most once; get_assignments only with the
\* non-empty url of the first course; save_data exactly once after a login
\* that returned True and never (the file staying as it was) after one that
\* returned False.
Rank(op) ==
    CASE op = "enter" -> 1 [] op = "login" -> 2 [] op = "get_courses" -> 3
      [] op = "get_assignments" -> 4 [] op = "save_data" -> 5 [] op = "exit" -> 6
FirstUrlGiven == courses # <<>> /\ courses[1].url # <<>>

MainOrder ==
    /\ \A i \in 1..Len(log), j \in 1..Len(log) : i < j => Rank(log[i]) < Rank(log[j])
    /\ \A i \in 2..Len(log) :
          /\ log[i] = "login" => log[i - 1] = "enter"
          /\ log[i] = "get_courses" => log[i - 1] = "login"
          /\ log[i] = "get_assignments" => log[i - 1] = "get_courses"
          /\ log[i] = "save_data" => log[i - 1] \in {"get_courses", "get_assignments"}
    /\ log # <<>> => log[1] = "enter"
    /\ InLog("get_courses") => login_ret
    /\ InLog("get_assignments") => (FirstUrlGiven /\ ga_url = courses[1].url)
    /\ InLog("save_data") => (login_ret /\ (FirstUrlGiven => InLog("get_assignments")))
    /\ (InLog("login") /\ ~login_ret) => file = file0
    /\ (pc = "done" /\ InLog("login")) =>
          /\ InLog("exit")
          /\ login_ret => Count("save_data") = 1
          /\ ~login_ret => Count("save_data") = 0

FullRunDone ==
    /\ pc = "done"
    /\ log = <<"enter", "login", "get_courses", "get_assignments", "save_data", "exit">>
    /\ file # file0

=============================================================================
